---- MODULE Spec2Model ----
(***************************************************************************)
(* COCO -> YOLO segmentation label converter (coco2yolo_seg.py).           *)
(*                                                                         *)
(* The model follows convert(): the metadata document is consumed one      *)
(* image record and one annotation record at a time, in the order of the   *)
(* two nested loops.  Pixel coordinates are integers; a coordinate of a    *)
(* label line is the integer number of 1e-5 units that "%.5f" prints.      *)
(* The results of the external libraries (cv2.approxPolyDP, cv2.imread,    *)
(* pycocotools decode + cv2.findContours) are part of the input: each      *)
(* polygon carries the index set approxPolyDP keeps, each mask the         *)
(* contours its decoding yields, each image the shape imread returns.      *)
(***************************************************************************)
EXTENDS Integers, Sequences, FiniteSets, TLC

\* ------------------------------------------------------------------ bounds
MaxImages == 2     \* image records in the document
MaxAnns   == 2     \* annotation records in the document
MaxPolys  == 1     \* point lists per polygon segmentation / contours per mask
MaxCats   == 2     \* category records in the document
MaxPts    == 4     \* points of a sequence given to _approx_simplify alone

\* --------------------------------------------------------------- variables
VARIABLES
  pc,                       \* position in convert: load, images, anns, done, aborted, (pure)
  categories,               \* [c["id"] for c in coco["categories"]], document order
  skip_crowd, approx_epsilon, min_points,   \* arguments of convert
  HAS_PYCOCO,               \* module flag set by the guarded import
  catid2yolo,               \* category id -> class index
  total_imgs, written_imgs, total_anns, written_lines, skipped_rle, skipped_empty,
  img_idx,                  \* number of image records the outer loop has taken
  w, h,                     \* effective size of the current image
  label_path,               \* label file name of the current image
  lines_written_for_image,
  files,                    \* output directory: label file name -> sequence of lines
  error,                    \* exception that ended the run, "none" otherwise
  seen,                     \* annotations of the current image handled so far: what
                            \* each was (valid polygon, null, else the branch it took),
                            \* whether it was a mask (a non-empty mapping), its crowd flag
  decodes,                  \* calls of _rle_to_contours so far
  produced,                 \* annotations that put at least one line into a file
  dropped,                  \* list/mask annotations whose every polygon/contour was dropped
  file_name,                \* file_name of the current image record
  log,                      \* per named image: file_name, label file name, lines emitted,
                            \* counted as labeled?
  call                      \* argument/result record of a direct call of a helper

vars == <<pc, categories, skip_crowd, approx_epsilon, min_points, HAS_PYCOCO,
          catid2yolo, total_imgs, written_imgs, total_anns, written_lines,
          skipped_rle, skipped_empty, img_idx, w, h, label_path, file_name,
          lines_written_for_image, files, error, seen, decodes, produced,
          dropped, log, call>>

\* ----------------------------------------------------------------- helpers
Min(a, b) == IF a <= b THEN a ELSE b
Max(a, b) == IF a >= b THEN a ELSE b

\* np.clip(x, lo, hi) = minimum(hi, maximum(x, lo)); hi wins when lo > hi
Clip(x, lo, hi) == Min(hi, Max(x, lo))

\* sequences of length 0..n over S
SeqsUpTo(S, n) == UNION {[1..k -> S] : k \in 0..n}

RECURSIVE InsertSorted(_, _)
InsertSorted(x, s) ==
  IF s = <<>> THEN <<x>>
  ELSE IF x <= Head(s) THEN <<x>> \o s
  ELSE <<Head(s)>> \o InsertSorted(x, Tail(s))

\* sorted(list)
RECURSIVE Sorted(_)
Sorted(s) == IF s = <<>> THEN <<>> ELSE InsertSorted(Head(s), Sorted(Tail(s)))

\* {cid: i for i, cid in enumerate(ids)}: a later entry overwrites an earlier one
Enumerate(ids) ==
  [cid \in {ids[i] : i \in DOMAIN ids} |->
     (CHOOSE i \in DOMAIN ids :
        ids[i] = cid /\ \A j \in DOMAIN ids : ids[j] = cid => j <= i) - 1]

CatIdToYolo_unsorted(cats) == Enumerate(cats)

\* cat_ids = sorted(...); catid2yolo = {cid: i ...}
CatIdToYolo(cats) == Enumerate(Sorted(cats))

\* index of the last occurrence of c in s, 0 when absent
LastIndex(s, c) ==
  LET I == {i \in DOMAIN s : s[i] = c} IN
  IF I = {} THEN 0 ELSE CHOOSE i \in I : \A j \in I : j <= i

\* os.path.basename
Basename(p) == SubSeq(p, LastIndex(p, "/") + 1, Len(p))

\* os.path.splitext(b)[0]: the extension starts at the last dot, leading dots aside
SplitextRoot(b) ==
  LET d == LastIndex(b, ".") IN
  IF d > 0 /\ \E i \in 1..(d - 1) : b[i] # "." THEN SubSeq(b, 1, d - 1) ELSE b

\* os.path.splitext(os.path.basename(file_name))[0] + ".txt"
LabelName(name) == SplitextRoot(Basename(name)) \o <<".txt">>

\* np.array(poly).reshape(-1, 2), for a flat list of even length
Reshape(flat) == [i \in 1..(Len(flat) \div 2) |-> <<flat[2 * i - 1], flat[2 * i]>>]

\* the points cv2.approxPolyDP returns: those of xy at the indices kept
ApproxPolyDP(xy, keep) ==
  LET F[i \in 0..Len(xy)] ==
        IF i = 0 THEN <<>>
        ELSE IF i \in keep THEN Append(F[i - 1], xy[i]) ELSE F[i - 1]
  IN F[Len(xy)]

_approx_simplify_noguard(xy, epsilon, keep) ==
  IF epsilon <= 0 \/ Len(xy) < 4 THEN xy ELSE ApproxPolyDP(xy, keep)

_approx_simplify(xy, epsilon, keep) ==
  IF epsilon <= 0 \/ Len(xy) < 4 THEN xy
  ELSE LET approx == ApproxPolyDP(xy, keep) IN
       IF Len(approx) >= 3 THEN approx ELSE xy

\* a normalized coordinate is the fraction <<numerator, denominator>>
_normalize_xy(xy, iw, ih) ==
  [i \in DOMAIN xy |->
     << <<Clip(xy[i][1], 0, iw - 1), Max(iw, 1)>>,
        <<Clip(xy[i][2], 0, ih - 1), Max(ih, 1)>> >>]

\* f"{x:.5f}" as a number of 1e-5 units, rounded to nearest
Fmt5(r) == (2 * r[1] * 100000 + r[2]) \div (2 * r[2])

FormatLine(cls_id, xy_norm) ==
  [cls |-> cls_id,
   xy  |-> [i \in DOMAIN xy_norm |-> <<Fmt5(xy_norm[i][1]), Fmt5(xy_norm[i][2])>>]]

_write_label_line_noguard(fh, cls_id, xy_norm) == Append(fh, FormatLine(cls_id, xy_norm))

\* fh is the content of the open label file
_write_label_line(fh, cls_id, xy_norm) ==
  IF Len(xy_norm) < 3 THEN fh ELSE Append(fh, FormatLine(cls_id, xy_norm))

\* ------------------------------------------------------------------ inputs
CatIds == {1, 3}                       \* sparse category ids
CategoryLists == SeqsUpTo(CatIds, MaxCats)
Categories0 == <<3, 1>>                \* a document's categories, not in id order
AnnCatIds == {3, 5}                    \* category_id values of annotations

FileNames == { <<>>,                   \* file_name missing or empty
               <<"a", "/", "1", ".", "jpg">>,
               <<"b", "/", "1", ".", "png">>,
               <<"2", ".", "jpg">> }

DeclDims == { <<100, 50>>, <<0, 0>> }  \* width, height of the image record (0: absent)
DiskImages == { <<>>, <<50, 100>> }    \* im.shape[:2] of the file, <<>>: no readable file

Quad == <<-3, 0, 120, 0, 99, 60, 0, 49>>

\* a member of a polygon segmentation: a flat point list, or a bare number
PointList(val, keep) == [num |-> FALSE, val |-> val, keep |-> keep]
PolyItems ==
  { [num |-> TRUE, val |-> <<1>>, keep |-> {}] }
  \cup { PointList(SubSeq(Quad, 1, n), 1..4) : n \in {0, 4, 5, 6, 7, 8} }
  \cup { PointList(Quad, {1, 2, 3}), PointList(Quad, {1, 3}) }

\* a contour found in a decoded mask, as the flat list of its points
ContourItems ==
  { PointList(<<5, 5>>, {1}), PointList(SubSeq(Quad, 1, 4), {1, 2}),
    PointList(Quad, 1..4), PointList(Quad, {1, 2, 3}), PointList(Quad, {1, 3}) }

Seg(kind, empty, items) == [kind |-> kind, empty |-> empty, items |-> items]
Segmentations ==
  { Seg("null", TRUE, <<>>), Seg("list", TRUE, <<>>), Seg("dict", TRUE, <<>>),
    Seg("str", FALSE, <<>>) }
  \cup { Seg("list", FALSE, it) : it \in SeqsUpTo(PolyItems, MaxPolys) \ {<<>>} }
  \cup { Seg("dict", FALSE, it) : it \in SeqsUpTo(ContourItems, MaxPolys) }

Annotations ==
  [category_id : AnnCatIds, segmentation : Segmentations, iscrowd : {0, 1}]

\* -------------------------------------------------- handling one annotation
\* lines 176, 181, 196-204, 211, 224: which way an annotation goes
Branch_noempty(ann) ==
  LET seg == ann.segmentation IN
  IF seg.kind \in {"list", "null"} THEN "polygon"
  ELSE IF seg.kind = "dict" THEN
         IF ann.iscrowd = 1 /\ skip_crowd THEN "crowd"
         ELSE IF ~HAS_PYCOCO THEN "nodecode"
         ELSE IF seg.items = <<>> THEN "nocontours"
         ELSE "mask"
  ELSE "unknown"

Branch_decodefirst(ann) ==
  LET seg == ann.segmentation IN
  IF seg.empty THEN "empty"
  ELSE IF seg.kind = "list" THEN "polygon"
  ELSE IF seg.kind = "dict" THEN
         IF ~HAS_PYCOCO THEN "nodecode"
         ELSE IF ann.iscrowd = 1 /\ skip_crowd THEN "crowd"
         ELSE IF seg.items = <<>> THEN "nocontours"
         ELSE "mask"
  ELSE "unknown"

Branch(ann) ==
  LET seg == ann.segmentation IN
  IF seg.empty THEN "empty"
  ELSE IF seg.kind = "list" THEN "polygon"
  ELSE IF seg.kind = "dict" THEN
         IF ann.iscrowd = 1 /\ skip_crowd THEN "crowd"
         ELSE IF ~HAS_PYCOCO THEN "nodecode"
         ELSE IF seg.items = <<>> THEN "nocontours"
         ELSE "mask"
  ELSE "unknown"

SkipBucket_unknownuncounted(branch) ==
  IF branch \in {"crowd", "nodecode"} THEN "rle"
  ELSE IF branch \in {"empty", "nocontours"} THEN "empty"
  ELSE "none"

\* the skip counter a branch increments
SkipBucket(branch) ==
  IF branch \in {"crowd", "nodecode"} THEN "rle"
  ELSE IF branch \in {"empty", "nocontours", "unknown"} THEN "empty"
  ELSE "none"

\* simplify, reject, normalize, write, count (lines 187-193 and 216-222);
\* acc = [fh: file content, n: increments of the line counters, err]
Emit(acc, xy, keep, cls_id) ==
  LET s == _approx_simplify(xy, approx_epsilon, keep) IN
  IF Len(s) < min_points THEN acc
  ELSE [acc EXCEPT !.fh = _write_label_line(@, cls_id, _normalize_xy(s, w, h)),
                   !.n = @ + 1]

\* for poly in seg (lines 183-193)
RECURSIVE PolyLoop(_, _, _)
PolyLoop(items, cls_id, acc) ==
  IF items = <<>> THEN acc
  ELSE LET p == Head(items) IN
       IF p.num THEN (IF p.val[1] = 0 THEN PolyLoop(Tail(items), cls_id, acc)
                      ELSE [acc EXCEPT !.err = "TypeError"])
       ELSE IF Len(p.val) < 6 THEN PolyLoop(Tail(items), cls_id, acc)
       ELSE IF Len(p.val) % 2 # 0 THEN [acc EXCEPT !.err = "ValueError"]
       ELSE PolyLoop(Tail(items), cls_id, Emit(acc, Reshape(p.val), p.keep, cls_id))

\* for cnt in contours (lines 214-222)
RECURSIVE ContourLoop(_, _, _)
ContourLoop(items, cls_id, acc) ==
  IF items = <<>> THEN acc
  ELSE LET c == Head(items) IN
       ContourLoop(Tail(items), cls_id, Emit(acc, Reshape(c.val), c.keep, cls_id))

\* a single point list that is a polygon and stays one under the configuration
ValidPolygon(ann) ==
  LET seg == ann.segmentation IN
  /\ seg.kind = "list" /\ Len(seg.items) = 1
  /\ LET p == seg.items[1]
         n == Len(p.val) \div 2 IN
     /\ ~p.num /\ Len(p.val) >= 6 /\ Len(p.val) % 2 = 0
     /\ n >= min_points
     /\ (approx_epsilon > 0 /\ n >= 4
           => Cardinality(p.keep \cap (1..n)) >= Max(3, min_points))

IsMask(ann) == ann.segmentation.kind = "dict" /\ ~ann.segmentation.empty

Tag(ann) ==
  [what  |-> IF ValidPolygon(ann) THEN "valid"
             ELSE IF ann.segmentation.kind = "null" THEN "null"
             ELSE Branch(ann),
   mask  |-> IsMask(ann),
   crowd |-> IF IsMask(ann) THEN ann.iscrowd ELSE 0]

\* ------------------------------------------------------------ initial state
Epsilons  == {0, 2}          \* --approx-epsilon, in pixels
MinPoints == {1, 3, 4}       \* --min-points (not validated by parse_args)

NoCall == [op |-> "none", xy |-> <<>>, epsilon |-> 0, keep |-> {}, out |-> <<>>]

\* everything but the document, the arguments and the position
Fresh ==
  /\ catid2yolo = <<>>
  /\ total_imgs = 0 /\ written_imgs = 0 /\ total_anns = 0 /\ written_lines = 0
  /\ skipped_rle = 0 /\ skipped_empty = 0
  /\ img_idx = 0 /\ w = 0 /\ h = 0 /\ label_path = <<>> /\ file_name = <<>>
  /\ lines_written_for_image = 0
  /\ files = <<>>
  /\ error = "none"
  /\ seen = <<>>
  /\ decodes = 0 /\ produced = 0 /\ dropped = 0
  /\ log = <<>>
  /\ call = NoCall

Init ==
  /\ pc = "load"
  /\ categories = Categories0
  /\ skip_crowd \in BOOLEAN
  /\ approx_epsilon \in Epsilons
  /\ min_points \in MinPoints
  /\ HAS_PYCOCO \in BOOLEAN
  /\ Fresh

config == <<categories, skip_crowd, approx_epsilon, min_points, HAS_PYCOCO>>
counters == <<written_imgs, total_anns, written_lines, skipped_rle, skipped_empty>>
image == <<w, h, label_path, file_name>>
ghosts == <<decodes, produced, dropped>>

\* ----------------------------------------------------------------- actions
\* lines 126-148: index the document
Load ==
  /\ pc = "load"
  /\ catid2yolo' = CatIdToYolo(categories)
  /\ \E n \in 0..MaxImages : total_imgs' = n
  /\ pc' = "images"
  /\ UNCHANGED <<config, counters, img_idx, image, lines_written_for_image, files,
                 error, seen, ghosts, log, call>>

\* lines 151-153: an image record without file_name is passed over
SkipImage ==
  /\ pc = "images" /\ img_idx < total_imgs
  /\ img_idx' = img_idx + 1
  /\ UNCHANGED <<pc, config, catid2yolo, total_imgs, counters, image,
                 lines_written_for_image, files, error, seen, ghosts, log, call>>

\* lines 154-169: effective size, label path, open(label_path, "w");
\* the image records of a document name different files
BeginImage ==
  /\ pc = "images" /\ img_idx < total_imgs
  /\ \E fn \in FileNames \ {<<>>}, decl \in DeclDims, disk \in DiskImages :
       LET recover == (decl[1] <= 0 \/ decl[2] <= 0) /\ disk # <<>>
           path == LabelName(fn) IN
       /\ \A i \in DOMAIN log : log[i].file_name # fn
       /\ file_name' = fn
       /\ w' = IF recover THEN disk[2] ELSE decl[1]
       /\ h' = IF recover THEN disk[1] ELSE decl[2]
       /\ label_path' = path
       /\ files' = [p \in DOMAIN files \cup {path} |->
                      IF p = path THEN <<>> ELSE files[p]]
  /\ lines_written_for_image' = 0
  /\ seen' = <<>>
  /\ img_idx' = img_idx + 1
  /\ pc' = "anns"
  /\ UNCHANGED <<config, catid2yolo, total_imgs, counters, error, ghosts, log, call>>

\* line 173 raises KeyError for a category id the document does not declare
AnnKeyError ==
  /\ pc = "anns" /\ total_anns < MaxAnns
  /\ \E ann \in Annotations : ann.category_id \notin DOMAIN catid2yolo
  /\ total_anns' = total_anns + 1
  /\ pc' = "aborted" /\ error' = "KeyError"
  /\ UNCHANGED <<config, catid2yolo, total_imgs, written_imgs, written_lines,
                 skipped_rle, skipped_empty, img_idx, image,
                 lines_written_for_image, files, seen, ghosts, log, call>>

\* an annotation that takes one of the "continue" exits of lines 176-227
Skip(b, decoding) ==
  /\ pc = "anns" /\ total_anns < MaxAnns
  /\ \E ann \in Annotations :
       /\ ann.category_id \in DOMAIN catid2yolo
       /\ Branch(ann) = b
       /\ seen' = Append(seen, Tag(ann))
  /\ total_anns' = total_anns + 1
  /\ skipped_rle' = skipped_rle + (IF SkipBucket(b) = "rle" THEN 1 ELSE 0)
  /\ skipped_empty' = skipped_empty + (IF SkipBucket(b) = "empty" THEN 1 ELSE 0)
  /\ decodes' = decodes + (IF decoding THEN 1 ELSE 0)
  /\ UNCHANGED <<pc, config, catid2yolo, total_imgs, written_imgs, written_lines,
                 img_idx, image, lines_written_for_image, files, error,
                 produced, dropped, log, call>>

AnnEmpty      == Skip("empty", FALSE)        \* lines 176-178
AnnCrowd      == Skip("crowd", FALSE)        \* lines 198-200
AnnNoDecode   == Skip("nodecode", FALSE)     \* lines 201-204
AnnNoContours == Skip("nocontours", TRUE)    \* lines 210-213
AnnUnknown    == Skip("unknown", FALSE)      \* lines 224-227

\* an annotation that reaches one of the two writing loops; raising says
\* whether the loop ends in an exception
Write(b, raising) ==
  /\ pc = "anns" /\ total_anns < MaxAnns
  /\ \E ann \in Annotations :
       /\ ann.category_id \in DOMAIN catid2yolo
       /\ Branch(ann) = b
       /\ LET cls_id == catid2yolo[ann.category_id]
              acc0 == [fh |-> files[label_path], n |-> 0, err |-> "none"]
              acc == IF b = "polygon"
                       THEN PolyLoop(ann.segmentation.items, cls_id, acc0)
                       ELSE ContourLoop(ann.segmentation.items, cls_id, acc0)
              wrote == Len(acc.fh) > Len(files[label_path]) IN
          /\ raising = (acc.err # "none")
          /\ files' = [files EXCEPT ![label_path] = acc.fh]
          /\ written_lines' = written_lines + acc.n
          /\ lines_written_for_image' = lines_written_for_image + acc.n
          /\ error' = acc.err
          /\ pc' = IF raising THEN "aborted" ELSE pc
          /\ produced' = produced + (IF wrote THEN 1 ELSE 0)
          /\ dropped' = dropped + (IF wrote THEN 0 ELSE 1)
          /\ seen' = Append(seen, Tag(ann))
  /\ total_anns' = total_anns + 1
  /\ decodes' = decodes + (IF b = "mask" THEN 1 ELSE 0)
  /\ UNCHANGED <<config, catid2yolo, total_imgs, written_imgs, skipped_rle,
                 skipped_empty, img_idx, image, log, call>>

AnnPolygon       == Write("polygon", FALSE)  \* lines 181-193
AnnPolygonRaises == Write("polygon", TRUE)   \* lines 184, 186 raise
AnnMask          == Write("mask", FALSE)     \* lines 205-222

\* lines 229-233, after the last annotation of the image
EndImage ==
  /\ pc = "anns"
  /\ LET prune == lines_written_for_image = 0 /\ label_path \in DOMAIN files IN
     /\ files' = IF prune THEN [p \in DOMAIN files \ {label_path} |-> files[p]]
                 ELSE files
     /\ written_imgs' = IF prune THEN written_imgs ELSE written_imgs + 1
     /\ log' = Append(log, [file_name |-> file_name, path |-> label_path,
                            lines |-> files[label_path], labeled |-> ~prune])
  /\ pc' = "images"
  /\ UNCHANGED <<config, catid2yolo, total_imgs, total_anns, written_lines,
                 skipped_rle, skipped_empty, img_idx, image,
                 lines_written_for_image, error, seen, ghosts, call>>

\* lines 235-241: the statistics are printed
Finish ==
  /\ pc = "images" /\ img_idx = total_imgs
  /\ pc' = "done"
  /\ UNCHANGED <<config, catid2yolo, total_imgs, counters, img_idx, image,
                 lines_written_for_image, files, error, seen, ghosts, log, call>>

Next ==
  \/ Load \/ SkipImage \/ BeginImage
  \/ AnnKeyError \/ AnnEmpty \/ AnnCrowd \/ AnnNoDecode \/ AnnNoContours
  \/ AnnUnknown \/ AnnPolygon \/ AnnPolygonRaises \/ AnnMask
  \/ EndImage \/ Finish

Spec == Init /\ [][Next]_vars

\* the same run over every categories list, with the default --min-points,
\* simplification on and --skip-crowd given
InitCats ==
  /\ pc = "load"
  /\ categories \in CategoryLists
  /\ skip_crowd = TRUE
  /\ approx_epsilon = 2
  /\ min_points = 3
  /\ HAS_PYCOCO \in BOOLEAN
  /\ Fresh

SpecCats == InitCats /\ [][Next]_vars

\* ------------------------------------------- _approx_simplify on its own
Points == { <<0, 0>>, <<99, 49>> }
Tolerances == {-1, 0, 2}

InitSimplify ==
  /\ pc = "pure"
  /\ categories = <<>> /\ skip_crowd = FALSE /\ approx_epsilon = 0
  /\ min_points = 3 /\ HAS_PYCOCO = FALSE
  /\ Fresh

CallSimplify ==
  /\ pc = "pure"
  /\ \E xy \in SeqsUpTo(Points, MaxPts), epsilon \in Tolerances :
       \E keep \in SUBSET (1..Len(xy)) :
         /\ (Len(xy) > 0 => keep # {})
         /\ call' = [op |-> "simplify", xy |-> xy, epsilon |-> epsilon, keep |-> keep,
                     out |-> _approx_simplify(xy, epsilon, keep)]
  /\ UNCHANGED <<pc, config, catid2yolo, total_imgs, counters, img_idx, image,
                 lines_written_for_image, files, error, seen, ghosts, log>>

NextSimplify == CallSimplify

SpecSimplify == InitSimplify /\ [][NextSimplify]_vars

\* ------------------------------------------------------------------ claims
Last == seen[Len(seen)]
Handled == Len(seen') = Len(seen) + 1      \* the step handled one annotation
Whats == [i \in DOMAIN seen |-> seen[i].what]
Range(f) == {f[x] : x \in DOMAIN f}
AllLines == UNION {Range(files[p]) : p \in DOMAIN files}

\* C1: after convert completes, an image's label file exists only if at least
\* one label line was written into it, for every configuration; an image
\* without a written line has no label file
C1_LabelFileOnlyWithLines ==
  pc = "done" =>
    /\ \A p \in DOMAIN files : files[p] # <<>>
    /\ \A i \in DOMAIN log : log[i].lines = <<>> => log[i].path \notin DOMAIN files

\* C2: every coordinate written to a label line lies in [0,1], whatever the
\* image size convert ends up using (declared, recovered, or left <= 0)
C2_CoordinatesInUnitInterval ==
  \A l \in AllLines : \A i \in DOMAIN l.xy :
    /\ 0 <= l.xy[i][1] /\ l.xy[i][1] <= 100000
    /\ 0 <= l.xy[i][2] /\ l.xy[i][2] <= 100000

\* C3: every label line written is a class index followed by at least 3
\* points, for polygons and masks and any min_points
C3_LinesHaveThreePoints ==
  \A l \in AllLines : l.cls \in Range(catid2yolo) /\ Len(l.xy) >= 3

\* a sequence of fewer than 3 points passed the min_points test and reached
\* _write_label_line, in a file that also holds a line
C3_Witness ==
  /\ pc = "anns" /\ min_points < 3
  /\ files[label_path] # <<>>
  /\ lines_written_for_image > Len(files[label_path])

\* m maps the ids of cats one-to-one and increasingly onto 0..Len(cats)-1
IncreasingBijection(m, cats) ==
  /\ DOMAIN m = Range(cats)
  /\ Range(m) = 0..(Len(cats) - 1)
  /\ \A a, b \in DOMAIN m : a < b => m[a] < m[b]

Distinct(cats) == \A i, j \in DOMAIN cats : cats[i] = cats[j] => i = j

\* C4 as stated: for any categories list of N records the mapping is a strictly
\* increasing bijection from the category ids onto 0..N-1
C4_AnyListBijection ==
  pc # "load" => IncreasingBijection(catid2yolo, categories)

\* C4 amended: for a categories list of N records with pairwise distinct ids
\* the mapping is a strictly increasing bijection from the ids onto 0..N-1;
\* once built it is never modified
C4_DistinctIdsBijection ==
  /\ [](pc # "load" /\ Distinct(categories)
          => IncreasingBijection(catid2yolo, categories))
  /\ [][pc # "load" => catid2yolo' = catid2yolo]_vars

C4_Witness ==
  /\ pc = "done" /\ categories = <<3, 1>>
  /\ catid2yolo[1] = 0 /\ catid2yolo[3] = 1
  /\ \E l \in AllLines : l.cls = 1

\* C5: with every annotation referring to a declared category, no
\* segmentation value aborts the run: it ends by printing the statistics after
\* visiting every image, and leaves no label file without a line
C5_RunCompletes ==
  /\ error \in {"none", "KeyError"}
  /\ pc = "done" => img_idx = total_imgs
  /\ pc \in {"done", "aborted"} /\ error # "KeyError"
       => \A p \in DOMAIN files : files[p] # <<>>

\* C6 as stated: every annotation without a line is a counted skip, so at
\* completion total = (annotations with a line) + skipped RLE + skipped empty
C6_EveryZeroLineAnnotationCounted ==
  pc = "done" => total_anns = produced + skipped_rle + skipped_empty

\* C6 amended: the skip counters cover empty, unrecognized, crowd-skip,
\* decode-unavailable and no-contour annotations only; a list or mask
\* annotation whose polygons or contours were all dropped is in neither, so
\* total = (with a line) + skipped RLE + skipped empty + (all dropped)
C6_CountedSkipsAndDropped ==
  pc # "aborted" =>
    /\ total_anns = produced + dropped + skipped_rle + skipped_empty
    /\ written_lines >= produced

C6_Witness ==
  pc = "done" /\ dropped = 1 /\ skipped_empty = 1 /\ total_anns = 2

\* C7: for a mask annotation the crowd test comes before the decode test;
\* either skip adds exactly one to the skipped-RLE counter, nothing to
\* skipped-empty, decodes nothing and writes nothing
C7_CrowdTestBeforeDecodeTest ==
  [][Handled /\ seen'[Len(seen')].mask
       /\ ((seen'[Len(seen')].crowd = 1 /\ skip_crowd) \/ ~HAS_PYCOCO)
     => /\ seen'[Len(seen')].what =
             (IF seen'[Len(seen')].crowd = 1 /\ skip_crowd THEN "crowd" ELSE "nodecode")
        /\ skipped_rle' = skipped_rle + 1
        /\ skipped_empty' = skipped_empty
        /\ decodes' = decodes
        /\ files' = files /\ written_lines' = written_lines]_vars

\* a crowd mask with skip-crowd off and decoding unavailable, counted once
C7_Witness ==
  /\ seen # <<>> /\ Last.mask /\ Last.crowd = 1 /\ Last.what = "nodecode"
  /\ ~skip_crowd /\ ~HAS_PYCOCO
  /\ total_anns = 1 /\ skipped_rle = 1 /\ skipped_empty = 0

\* C8: a null or empty segmentation adds exactly one to skipped-empty and
\* writes nothing; an image with one valid polygon and one null segmentation,
\* in either order, ends with one line, skipped-empty 1, and is labeled
C8_NullSegmentationSkipped ==
  /\ [][Handled /\ seen'[Len(seen')].what \in {"null", "empty"}
          => /\ skipped_empty' = skipped_empty + 1
             /\ skipped_rle' = skipped_rle
             /\ files' = files /\ written_lines' = written_lines]_vars
  /\ [](pc = "done" /\ total_imgs = 1
          /\ Whats \in {<<"valid", "null">>, <<"null", "valid">>}
        => /\ written_lines = 1 /\ skipped_empty = 1 /\ skipped_rle = 0
           /\ written_imgs = 1
           /\ Len(files[label_path]) = 1)

C8_Witness ==
  /\ pc = "done" /\ total_imgs = 1 /\ Whats = <<"null", "valid">>
  /\ written_lines = 1 /\ skipped_empty = 1 /\ written_imgs = 1

SimplifyBasics ==
  LET approx == ApproxPolyDP(call.xy, call.keep) IN
  /\ (call.epsilon <= 0 \/ Len(call.xy) < 4) => call.out = call.xy
  /\ (call.epsilon > 0 /\ Len(call.xy) >= 4) =>
        \/ call.out = approx /\ Len(approx) >= 3
        \/ call.out = call.xy /\ Len(approx) < 3

\* C9 as stated: _approx_simplify returns its input when the tolerance is <= 0
\* or there are fewer than 4 points, else the simplified sequence if that has
\* at least 3 points and the input otherwise; it never returns fewer than 3
C9_NeverFewerThanThree ==
  call.op = "simplify" => SimplifyBasics /\ Len(call.out) >= 3

\* C9 amended: the same, but it returns fewer than 3 points exactly when it is
\* given fewer than 3 points (those come back unchanged)
C9_FewerThanThreeOnlyIfGiven ==
  call.op = "simplify" =>
    /\ SimplifyBasics
    /\ Len(call.out) < 3 <=> Len(call.xy) < 3

\* the simplification collapsed below 3 points and the input came back
C9_Witness ==
  /\ call.op = "simplify" /\ call.epsilon > 0 /\ Len(call.xy) >= 4
  /\ Len(ApproxPolyDP(call.xy, call.keep)) < 3
  /\ call.out = call.xy

\* C10: from an empty output directory, at completion the label files are in
\* one-to-one correspondence with the images counted as labeled, and each
\* holds exactly the lines emitted for its image
C10_FilesMatchLabeledImages ==
  pc = "done" =>
    /\ Cardinality(DOMAIN files) = written_imgs
    /\ \A i \in DOMAIN log : log[i].labeled =>
         log[i].path \in DOMAIN files /\ files[log[i].path] = log[i].lines

====
